---- MODULE Spec2Model ----
(***************************************************************************)
(* Model of the Ambiance light controller (src/src/code.py): startup       *)
(* (init, init_wifi, init_mqtt), the main loop (blink, _mqtt_loop, script  *)
(* ticks, pacing), the alert mode blink_error and the MQTT message handler *)
(* _mqtt_on_message.                                                       *)
(*                                                                         *)
(* Time is counted in ticks of a quarter of a second.  Brightness values   *)
(* are counted in hundredths (0.1 is 10, 0.75 is 75, 1 is 100).  Payloads  *)
(* are sequences of one-character strings, parsed digit by digit.          *)
(***************************************************************************)
EXTENDS Integers, Sequences, FiniteSets, TLC

VARIABLES
    pc,               \* position of the single thread of control
    clock,            \* elapsed time, in ticks
    env,              \* settings.toml, read through os.getenv
    NEO_LEN,          \* module globals of code.py
    NEO_STRIP_PIN,
    NEO_DONT_BLINK,
    MQTT_TOPIC_ROOT,
    led,              \* _led: [color, brightness]
    neo,              \* _neo_wrapper: [len, max_len, brightness]
    mqtt,             \* _mqtt: NoClient, "retry" or "client"
    subscribed,       \* the client holds the subscription on <root>/#
    mqtt_retry_ts,    \* _mqtt_retry_ts
    last_trigger,     \* _last_trigger
    last_blink_ts,    \* _last_blink_ts
    next_blink,       \* _next_blink
    start_ts,         \* start_ts of the current iteration of loop()
    alert,            \* the running blink_error call: [num_loop, ret, code,
                      \* cycles, n, btn], n being the num_loop it was called
                      \* with and btn the value of _boot_btn.value at its
                      \* next while test (False is pressed)
    caller,           \* who called init_mqtt: "main" or "loop"
    iter,             \* the current iteration of loop(): [steps, delta, ops], ops
                      \* being the broker operations of its _mqtt_loop call
    att,              \* the latest broker connection attempt: [kind, ok, since]
    msg,              \* the message of the latest OnMessageCall and what the
                      \* handler did with it
    shadow            \* the handler state of the same run of OnMessageCall
                      \* steps without its failing messages

vars == <<pc, clock, env, NEO_LEN, NEO_STRIP_PIN, NEO_DONT_BLINK,
          MQTT_TOPIC_ROOT, led, neo, mqtt, subscribed, mqtt_retry_ts,
          last_trigger, last_blink_ts, next_blink, start_ts, alert, caller,
          iter, att, msg, shadow>>

----------------------------------------------------------------------------
(* Bounds of the model *)

MaxClock == 56

MaxEnvLen == 3

MaxMsgs == 3

BootEpoch == 6

----------------------------------------------------------------------------
(* Constants of code.py *)

DefaultNeoLen == 100

TicksPerSec == 4

RetryWait == 5

BlinkPeriod == 1

LoopBudget == 1

PaceSleep == 1

BootDelayCount == 3

LedBrightness == 10

OnboardBrightness == 75

StripBrightness == 100

None == "None"

NoClient == "NoClient"

\* _last_trigger = None: no payload, which are sequences of characters
NoTrigger == <<"None">>

COL_OFF == <<0, 0, 0>>

COL_GREEN == <<0, 255, 0>>

COL_BLUE == <<0, 0, 255>>

COL_PURPLE == <<255, 0, 255>>

COL_ORANGE == <<255, 40, 0>>

COL_YELLOW == <<255, 112, 0>>

CODE_OK == "ok"

CODE_WIFI_FAILED == "wifi_failed"

CODE_MQTT_FAILED == "mqtt_failed"

CODE_MQTT_RETRY == "mqtt_retry"

COL_LED_ERROR ==
    [c \in {CODE_OK, CODE_WIFI_FAILED, CODE_MQTT_FAILED, CODE_MQTT_RETRY} |->
        CASE c = CODE_OK -> COL_GREEN
          [] c = CODE_WIFI_FAILED -> COL_PURPLE
          [] c = CODE_MQTT_FAILED -> COL_BLUE
          [] c = CODE_MQTT_RETRY -> COL_ORANGE]

DefaultTopicRoot == "ambiance"

MQTT_TOPIC_LENGTH == "/length"

MQTT_TOPIC_BRIGHTNESS == "/brightness"

MQTT_TOPIC_SCRIPT_INIT == "/script/init"

MQTT_TOPIC_SCRIPT_EVENT == "/script/event"

MQTT_TOPIC_EVENT_TRIGGER == "/event/trigger"

----------------------------------------------------------------------------
(* Payloads and their conversions: int(message) and float(message) *)

Digits == <<"0", "1", "2", "3", "4", "5", "6", "7", "8", "9">>

IsDigit(c) == \E i \in 1..10 : Digits[i] = c

DigitVal(c) == (CHOOSE i \in 1..10 : Digits[i] = c) - 1

AllDigits(s) == Len(s) > 0 /\ \A i \in 1..Len(s) : IsDigit(s[i])

RECURSIVE DigitsVal(_)
DigitsVal(s) ==
    IF Len(s) = 0 THEN 0
    ELSE 10 * DigitsVal(SubSeq(s, 1, Len(s) - 1)) + DigitVal(s[Len(s)])

HasSign(s) == Len(s) > 0 /\ s[1] \in {"-", "+"}

Unsigned(s) == IF HasSign(s) THEN Tail(s) ELSE s

Sign(s) == IF Len(s) > 0 /\ s[1] = "-" THEN -1 ELSE 1

\* int(message): an optional sign and decimal digits, else ValueError
ParseInt(s) ==
    IF AllDigits(Unsigned(s))
    THEN [ok |-> TRUE, val |-> Sign(s) * DigitsVal(Unsigned(s))]
    ELSE [ok |-> FALSE, val |-> 0]

DotAt(s) == IF \E i \in 1..Len(s) : s[i] = "."
            THEN CHOOSE i \in 1..Len(s) : s[i] = "." /\ \A j \in 1..(i-1) : s[j] # "."
            ELSE 0

\* the fraction digits, in hundredths
FracVal(f) ==
    IF Len(f) = 0 THEN 0
    ELSE IF Len(f) = 1 THEN 10 * DigitVal(f[1])
    ELSE 10 * DigitVal(f[1]) + DigitVal(f[2])

\* float(message), in hundredths: sign, digits, optional point and digits
ParseFloat(s) ==
    LET u == Unsigned(s)
        d == DotAt(u)
        ip == IF d = 0 THEN u ELSE SubSeq(u, 1, d - 1)
        fp == IF d = 0 THEN <<>> ELSE SubSeq(u, d + 1, Len(u))
        wellFormed == /\ Len(ip) + Len(fp) > 0
                      /\ \A i \in 1..Len(ip) : IsDigit(ip[i])
                      /\ \A i \in 1..Len(fp) : IsDigit(fp[i])
    IN  IF wellFormed
        THEN [ok |-> TRUE, val |-> Sign(s) * (100 * DigitsVal(ip) + FracVal(fp))]
        ELSE [ok |-> FALSE, val |-> 0]

Payloads ==
    { <<"0">>, <<"1">>, <<"2">>, <<"9">>, <<"0", ".", "5">>, <<"1", ".", "5">>,
      <<"-", "0", ".", "1">>, <<"a">> }

\* the payloads delivered while the whole main loop runs
ServicePayloads == { <<"2">> }

Suffixes ==
    { MQTT_TOPIC_LENGTH, MQTT_TOPIC_BRIGHTNESS, MQTT_TOPIC_SCRIPT_INIT,
      MQTT_TOPIC_SCRIPT_EVENT, MQTT_TOPIC_EVENT_TRIGGER, "/length/x", "/status" }

----------------------------------------------------------------------------
(* The message handler _mqtt_on_message *)

Unbound == "Unbound"

\* the exception classes the handler can meet; all derive from Exception
ExceptionClasses == {"ValueError", "UnboundLocalError", "Exception"}

\* except Exception: is the raised exception caught by the handler
CaughtByHandler(exc) == exc \in ExceptionClasses

\* _neo_wrapper and _last_trigger, as the handler sees them
HandlerState ==
    [len |-> neo.len, max_len |-> neo.max_len, brightness |-> neo.brightness,
     last_trigger |-> last_trigger]

Outcome(h, calls, exc) ==
    [h |-> h, calls |-> calls, exc |-> exc,
     propagated |-> (exc # None /\ ~CaughtByHandler(exc))]

\* LengthBranch with the lower limit off by one
LengthBranchFromZero(h, message) ==
    LET value == ParseInt(message)
    IN  IF ~value.ok THEN Outcome(h, <<>>, "ValueError")
        ELSE IF value.val >= 0 /\ value.val <= h.max_len
             THEN Outcome([h EXCEPT !.len = ParseInt(message).val], <<>>, None)
             ELSE Outcome(h, <<>>, None)

\* topic == MQTT_TOPIC_ROOT + MQTT_TOPIC_LENGTH
LengthBranch(h, message) ==
    LET value == ParseInt(message)
    IN  IF ~value.ok THEN Outcome(h, <<>>, "ValueError")
        ELSE IF value.val >= 1 /\ value.val <= h.max_len
             THEN Outcome([h EXCEPT !.len = ParseInt(message).val], <<>>, None)
             ELSE Outcome(h, <<>>, None)

\* topic == MQTT_TOPIC_ROOT + MQTT_TOPIC_BRIGHTNESS: the parsed number is
\* bound to the local valie, the local value is never bound in this branch
BrightnessBranch(h, message) ==
    LET valie == ParseFloat(message)
        value == Unbound
    IN  IF ~valie.ok THEN Outcome(h, <<>>, "ValueError")
        ELSE IF value = Unbound THEN Outcome(h, <<>>, "UnboundLocalError")
        ELSE IF value >= 0 /\ value <= 100
             THEN Outcome([h EXCEPT !.brightness = value],
                          << <<"brightness", value>> >>, None)
             ELSE Outcome(h, <<>>, None)

\* _init_script.newScript(message) / _event_script.newScript(message)
ScriptBranch(h, which, message, ext) ==
    IF ext = "raise"
    THEN Outcome(h, << <<which, message, "raised">> >>, "Exception")
    ELSE Outcome(h, << <<which, message, "done">> >>, None)

\* TriggerBranch with the token stored before trigger() is called
TriggerBranchStoreFirst(h, message, ext) ==
    IF h.last_trigger # message
    THEN IF ext = "raise"
         THEN Outcome([h EXCEPT !.last_trigger = message],
                      << <<"trigger", <<>>, "raised">> >>, "Exception")
         ELSE Outcome([h EXCEPT !.last_trigger = message],
                      << <<"trigger", <<>>, "done">> >>, None)
    ELSE Outcome([h EXCEPT !.last_trigger = message], <<>>, None)

\* topic == MQTT_TOPIC_ROOT + MQTT_TOPIC_EVENT_TRIGGER
TriggerBranch(h, message, ext) ==
    IF h.last_trigger # message
    THEN IF ext = "raise"
         THEN Outcome(h, << <<"trigger", <<>>, "raised">> >>, "Exception")
         ELSE Outcome([h EXCEPT !.last_trigger = message],
                      << <<"trigger", <<>>, "done">> >>, None)
    ELSE Outcome([h EXCEPT !.last_trigger = message], <<>>, None)

\* OnMessage matching the length topic by prefix instead of by equality
OnMessageByPrefix(h, root, topic, message, ext) ==
    IF topic[1] = root /\ topic[2] \in {MQTT_TOPIC_LENGTH, "/length/x"}
    THEN LengthBranch(h, message)
    ELSE IF topic = <<root, MQTT_TOPIC_BRIGHTNESS>> THEN BrightnessBranch(h, message)
    ELSE IF topic = <<root, MQTT_TOPIC_SCRIPT_INIT>>
         THEN ScriptBranch(h, "init.newScript", message, ext)
    ELSE IF topic = <<root, MQTT_TOPIC_SCRIPT_EVENT>>
         THEN ScriptBranch(h, "event.newScript", message, ext)
    ELSE IF topic = <<root, MQTT_TOPIC_EVENT_TRIGGER>> THEN TriggerBranch(h, message, ext)
    ELSE Outcome(h, <<>>, None)

\* _mqtt_on_message(client, topic, message); ext is what the script
\* executor does when it is called: "ok" or "raise"
OnMessage(h, root, topic, message, ext) ==
    IF topic = <<root, MQTT_TOPIC_LENGTH>> THEN LengthBranch(h, message)
    ELSE IF topic = <<root, MQTT_TOPIC_BRIGHTNESS>> THEN BrightnessBranch(h, message)
    ELSE IF topic = <<root, MQTT_TOPIC_SCRIPT_INIT>>
         THEN ScriptBranch(h, "init.newScript", message, ext)
    ELSE IF topic = <<root, MQTT_TOPIC_SCRIPT_EVENT>>
         THEN ScriptBranch(h, "event.newScript", message, ext)
    ELSE IF topic = <<root, MQTT_TOPIC_EVENT_TRIGGER>> THEN TriggerBranch(h, message, ext)
    ELSE Outcome(h, <<>>, None)

NoMsg == [topic |-> <<>>]

\* what the handler did with one message, and what the same handler does
\* with it in the run from which the failing messages are removed
Handled(topic, message, ext) ==
    LET r == OnMessage(HandlerState, MQTT_TOPIC_ROOT, topic, message, ext)
        s == OnMessage(shadow.h, MQTT_TOPIC_ROOT, topic, message, ext)
    IN  [topic |-> topic, payload |-> message,
         pre |-> HandlerState, post |-> r.h, calls |-> r.calls, exc |-> r.exc,
         propagated |-> r.propagated, prevTrig |-> shadow.seen,
         shadowPost |-> IF r.exc = None THEN s.h ELSE shadow.h,
         shadowCalls |-> IF r.exc = None THEN s.calls ELSE <<>>,
         shadowExc |-> IF r.exc = None THEN s.exc ELSE None]

\* the state changes of one handled message
Dispatch(m) ==
    /\ neo' = [neo EXCEPT !.len = m.post.len, !.brightness = m.post.brightness]
    /\ last_trigger' = m.post.last_trigger

\* the record of one handled message
Recorded(m) ==
    /\ msg' = m
    /\ shadow' = [h |-> m.shadowPost, n |-> shadow.n + 1,
                  failed |-> (shadow.failed \/ m.exc # None),
                  seen |-> IF m.topic = <<MQTT_TOPIC_ROOT, MQTT_TOPIC_EVENT_TRIGGER>>
                           THEN m.payload ELSE shadow.seen]

----------------------------------------------------------------------------
(* Time *)

\* time.time(): whole seconds
TimeAt(c) == BootEpoch + (c \div TicksPerSec)

\* the longest time between connection attempts the model tells apart
GapCap == (RetryWait + 1) * TicksPerSec

Saturated(g) == IF g > GapCap THEN GapCap ELSE g

NoAttempt == [kind |-> "none", ok |-> TRUE, since |-> GapCap]

\* a step that takes d ticks; the model stops at MaxClock.  a is <<>>, or
\* <<kind, ok>> when the step starts with a broker connection attempt of
\* that kind and outcome: att keeps the latest attempt and the time since
\* its start
Elapse(d, a) ==
    /\ clock + d <= MaxClock
    /\ clock' = clock + d
    /\ att' = IF a = <<>>
              THEN [att EXCEPT !.since = Saturated(@ + d)]
              ELSE [kind |-> a[1], ok |-> a[2], since |-> Saturated(d)]

----------------------------------------------------------------------------
(* The heartbeat blink() and the alert mode blink_error() *)

\* Blink changing its phase as soon as the period has elapsed
BlinkAtPeriod(b, dont_blink, now) ==
    IF dont_blink THEN b
    ELSE LET lit == IF b.next_blink # 0 THEN LedBrightness ELSE 0
         IN  IF now - b.last_blink_ts >= BlinkPeriod
             THEN [brightness |-> lit, last_blink_ts |-> now,
                   next_blink |-> 1 - b.next_blink]
             ELSE [b EXCEPT !.brightness = lit]

\* blink() at time.time() = now, on b = [brightness, last_blink_ts, next_blink]
Blink(b, dont_blink, now) ==
    IF dont_blink THEN b
    ELSE LET lit == IF b.next_blink # 0 THEN LedBrightness ELSE 0
         IN  IF now - b.last_blink_ts > BlinkPeriod
             THEN [brightness |-> lit, last_blink_ts |-> now,
                   next_blink |-> 1 - b.next_blink]
             ELSE [b EXCEPT !.brightness = lit]

BlinkState == [brightness |-> led.brightness, last_blink_ts |-> last_blink_ts,
               next_blink |-> next_blink]

NoAlert == [num_loop |-> 0, ret |-> None, code |-> None, cycles |-> 0, n |-> 0,
            btn |-> TRUE]

AlertEntrySleep == 2

AlertOffSleep == 1

AlertOnSleep == 4

\* blink_error(error_code, num_loop) up to its while loop, called after the
\* caller spent d ticks (on the connection attempt a, if any); ret is the
\* position of the caller after the call
BlinkErrorStart(error_code, num_loop, ret, d, a) ==
    /\ led' = [color |-> COL_LED_ERROR[error_code], brightness |-> LedBrightness]
    /\ Elapse(d + AlertEntrySleep, a)
    /\ \E boot_btn_value \in BOOLEAN :
          alert' = [num_loop |-> num_loop, ret |-> ret, code |-> error_code,
                    cycles |-> 0, n |-> num_loop, btn |-> boot_btn_value]
    /\ pc' = "alert"

\* AlertCycle with the two brightness assignments in the other order
AlertCycleDark ==
    /\ pc = "alert"
    /\ alert.num_loop # 0
    /\ alert.btn
    /\ led' = [led EXCEPT !.brightness = 0]
    /\ Elapse(AlertOffSleep + AlertOnSleep, <<>>)
    /\ \E boot_btn_value \in BOOLEAN :
          alert' = [alert EXCEPT !.num_loop = @ - 1, !.cycles = @ + 1,
                                 !.btn = boot_btn_value]
    /\ UNCHANGED <<pc, env, NEO_LEN, NEO_STRIP_PIN, NEO_DONT_BLINK, MQTT_TOPIC_ROOT,
                   neo, mqtt, subscribed, mqtt_retry_ts, last_trigger, last_blink_ts,
                   next_blink, start_ts, caller, iter, msg, shadow>>

\* AlertCycle without the count down of num_loop
AlertCycleNoCount ==
    /\ pc = "alert"
    /\ alert.num_loop # 0
    /\ alert.btn
    /\ led' = [led EXCEPT !.brightness = LedBrightness]
    /\ Elapse(AlertOffSleep + AlertOnSleep, <<>>)
    /\ \E boot_btn_value \in BOOLEAN :
          alert' = [alert EXCEPT !.cycles = @ + 1, !.btn = boot_btn_value]
    /\ UNCHANGED <<pc, env, NEO_LEN, NEO_STRIP_PIN, NEO_DONT_BLINK, MQTT_TOPIC_ROOT,
                   neo, mqtt, subscribed, mqtt_retry_ts, last_trigger, last_blink_ts,
                   next_blink, start_ts, caller, iter, msg, shadow>>

\* one turn of the while loop of blink_error: num_loop is not 0 and the
\* button is not pressed; the LED goes dark for 0.25 s and lit for 1 s
AlertCycle ==
    /\ pc = "alert"
    /\ alert.num_loop # 0
    /\ alert.btn
    /\ led' = [led EXCEPT !.brightness = LedBrightness]
    /\ Elapse(AlertOffSleep + AlertOnSleep, <<>>)
    /\ \E boot_btn_value \in BOOLEAN :
          alert' = [alert EXCEPT !.num_loop = @ - 1, !.cycles = @ + 1,
                                 !.btn = boot_btn_value]
    /\ UNCHANGED <<pc, env, NEO_LEN, NEO_STRIP_PIN, NEO_DONT_BLINK, MQTT_TOPIC_ROOT,
                   neo, mqtt, subscribed, mqtt_retry_ts, last_trigger, last_blink_ts,
                   next_blink, start_ts, caller, iter, msg, shadow>>

\* the while loop of blink_error ends: num_loop is 0 or the button is pressed
AlertExit ==
    /\ pc = "alert"
    /\ alert.num_loop = 0 \/ ~alert.btn
    /\ pc' = alert.ret
    /\ alert' = NoAlert
    /\ UNCHANGED <<clock, env, NEO_LEN, NEO_STRIP_PIN, NEO_DONT_BLINK, MQTT_TOPIC_ROOT,
                   led, neo, mqtt, subscribed, mqtt_retry_ts, last_trigger,
                   last_blink_ts, next_blink, start_ts, caller, iter, att, msg, shadow>>

----------------------------------------------------------------------------
(* Startup: init(), init_wifi(), init_mqtt() *)

cfgVars == <<env, NEO_LEN, NEO_STRIP_PIN, MQTT_TOPIC_ROOT>>

handlerVars == <<neo, last_trigger, msg, shadow>>

blinkVars == <<last_blink_ts, next_blink>>

\* the settings the model draws settings.toml from; None and <<>> are an
\* absent key
Envs ==
    [ssid : BOOLEAN, host : BOOLEAN, pin : {None, "ONBOARD"},
     neo_len : {<<>>, <<"0">>, <<Digits[MaxEnvLen + 1]>>}, root : {None, "home"}]

\* sequencer.NeoWrapper(target, max_len), before the first brightness() call
NeoWrapperNew(max_len) == [len |-> max_len, max_len |-> max_len, brightness |-> 100]

NoIter == [steps |-> <<>>, delta |-> 0, ops |-> <<>>]

\* the state when code.py starts, with settings.toml drawn from E
InitWith(E) ==
    /\ pc = "init"
    /\ clock = 0
    /\ env \in E
    /\ NEO_LEN = DefaultNeoLen
    /\ NEO_STRIP_PIN = "A1"
    /\ NEO_DONT_BLINK = FALSE
    /\ MQTT_TOPIC_ROOT = DefaultTopicRoot
    /\ led = [color |-> COL_OFF, brightness |-> 0]
    /\ neo = NeoWrapperNew(DefaultNeoLen)
    /\ mqtt = NoClient
    /\ subscribed = FALSE
    /\ mqtt_retry_ts = 0
    /\ last_trigger = NoTrigger
    /\ last_blink_ts = 0
    /\ next_blink = 1
    /\ start_ts = 0
    /\ alert = NoAlert
    /\ caller = "main"
    /\ iter = NoIter
    /\ att = NoAttempt
    /\ msg = NoMsg
    /\ shadow = [h |-> [len |-> DefaultNeoLen, max_len |-> DefaultNeoLen,
                        brightness |-> 100, last_trigger |-> NoTrigger],
                 n |-> 0, failed |-> FALSE, seen |-> NoTrigger]

\* init()
InitDevice ==
    /\ pc = "init"
    /\ LET parsed == ParseInt(env.neo_len)
           neo_len == IF parsed.ok /\ parsed.val > 0 THEN parsed.val ELSE NEO_LEN
           pin == IF env.pin # None THEN env.pin ELSE NEO_STRIP_PIN
           b == IF pin = "ONBOARD" THEN OnboardBrightness ELSE StripBrightness
       IN  /\ NEO_LEN' = neo_len
           /\ MQTT_TOPIC_ROOT' = IF env.root # None THEN env.root ELSE MQTT_TOPIC_ROOT
           /\ NEO_STRIP_PIN' = pin
           /\ led' = [color |-> COL_OFF,
                      brightness |-> IF pin = "ONBOARD" THEN b ELSE LedBrightness]
           /\ neo' = [NeoWrapperNew(neo_len) EXCEPT !.brightness = b]
           /\ shadow' = [h |-> [len |-> neo_len, max_len |-> neo_len,
                                brightness |-> b, last_trigger |-> last_trigger],
                         n |-> 0, failed |-> FALSE, seen |-> NoTrigger]
    /\ pc' = "init_wifi"
    /\ UNCHANGED <<clock, env, NEO_DONT_BLINK, mqtt, subscribed, mqtt_retry_ts,
                   last_trigger, last_blink_ts, next_blink, start_ts, alert, caller,
                   iter, att, msg>>

\* InitWifi going on to init_mqtt() after the alert mode of a failure
InitWifiGoesOn ==
    /\ pc = "init_wifi"
    /\ IF ~env.ssid
       THEN /\ pc' = "crashed"
            /\ UNCHANGED <<clock, led, alert, att>>
       ELSE \E connected \in BOOLEAN :
              IF connected
              THEN /\ pc' = "init_mqtt"
                   /\ UNCHANGED <<clock, led, alert, att>>
              ELSE BlinkErrorStart(CODE_WIFI_FAILED, -1, "init_mqtt", 0, <<>>)
    /\ UNCHANGED <<cfgVars, NEO_DONT_BLINK, handlerVars, mqtt, subscribed,
                   mqtt_retry_ts, blinkVars, start_ts, caller, iter>>

\* InitWifi entering the alert mode when the SSID is missing
InitWifiAlertsNoSsid ==
    /\ pc = "init_wifi"
    /\ IF ~env.ssid
       THEN BlinkErrorStart(CODE_WIFI_FAILED, -1, "wifi_raise", 0, <<>>)
       ELSE \E connected \in BOOLEAN :
              IF connected
              THEN /\ pc' = "init_mqtt"
                   /\ UNCHANGED <<clock, led, alert, att>>
              ELSE BlinkErrorStart(CODE_WIFI_FAILED, -1, "wifi_raise", 0, <<>>)
    /\ UNCHANGED <<cfgVars, NEO_DONT_BLINK, handlerVars, mqtt, subscribed,
                   mqtt_retry_ts, blinkVars, start_ts, caller, iter>>

\* init_wifi(): no SSID raises ValueError; a ConnectionError of
\* wifi.radio.connect enters blink_error(CODE_WIFI_FAILED) and is re-raised
InitWifi ==
    /\ pc = "init_wifi"
    /\ IF ~env.ssid
       THEN /\ pc' = "crashed"
            /\ UNCHANGED <<clock, led, alert, att>>
       ELSE \E connected \in BOOLEAN :
              IF connected
              THEN /\ pc' = "init_mqtt"
                   /\ UNCHANGED <<clock, led, alert, att>>
              ELSE BlinkErrorStart(CODE_WIFI_FAILED, -1, "wifi_raise", 0, <<>>)
    /\ UNCHANGED <<cfgVars, NEO_DONT_BLINK, handlerVars, mqtt, subscribed,
                   mqtt_retry_ts, blinkVars, start_ts, caller, iter>>

\* the raise statement of init_wifi, after blink_error returned
WifiRaise ==
    /\ pc = "wifi_raise"
    /\ pc' = "crashed"
    /\ UNCHANGED <<clock, cfgVars, NEO_DONT_BLINK, handlerVars, led, mqtt, subscribed,
                   mqtt_retry_ts, blinkVars, start_ts, alert, caller, iter, att>>

ConnectTicks == {0}

\* InitMqtt with the default num_loop in the blink_error call of a failure
InitMqttDefaultCount ==
    /\ pc = "init_mqtt"
    /\ IF ~env.host
       THEN /\ pc' = "init_mqtt_ret"
            /\ UNCHANGED <<clock, led, alert, mqtt, subscribed, att>>
       ELSE \E connected \in BOOLEAN, d \in ConnectTicks :
              /\ mqtt' = "client"
              /\ subscribed' = connected
              /\ LET a == <<IF caller = "main" THEN "startup" ELSE "retry", connected>>
                 IN  IF connected
                     THEN BlinkErrorStart(CODE_OK, 0, "init_mqtt_ret", d, a)
                     ELSE BlinkErrorStart(CODE_MQTT_FAILED, -1, "init_mqtt_fail", d, a)
    /\ UNCHANGED <<cfgVars, NEO_DONT_BLINK, handlerVars, mqtt_retry_ts, blinkVars,
                   start_ts, caller, iter>>

\* init_mqtt() up to the outcome of _mqtt.connect(); on success the client
\* calls _mqtt_on_connected, which subscribes and calls blink_error(CODE_OK, 0)
InitMqtt ==
    /\ pc = "init_mqtt"
    /\ IF ~env.host
       THEN /\ pc' = "init_mqtt_ret"
            /\ UNCHANGED <<clock, led, alert, mqtt, subscribed, att>>
       ELSE \E connected \in BOOLEAN, d \in ConnectTicks :
              /\ mqtt' = "client"
              /\ subscribed' = connected
              /\ LET a == <<IF caller = "main" THEN "startup" ELSE "retry", connected>>
                 IN  IF connected
                     THEN BlinkErrorStart(CODE_OK, 0, "init_mqtt_ret", d, a)
                     ELSE BlinkErrorStart(CODE_MQTT_FAILED, 3, "init_mqtt_fail", d, a)
    /\ UNCHANGED <<cfgVars, NEO_DONT_BLINK, handlerVars, mqtt_retry_ts, blinkVars,
                   start_ts, caller, iter>>

\* the except branch of init_mqtt after blink_error: _mqtt = "retry"
InitMqttFail ==
    /\ pc = "init_mqtt_fail"
    /\ mqtt' = "retry"
    /\ pc' = "init_mqtt_ret"
    /\ UNCHANGED <<clock, cfgVars, NEO_DONT_BLINK, handlerVars, led, subscribed,
                   mqtt_retry_ts, blinkVars, start_ts, alert, caller, iter, att>>

\* InitMqttRet without the return that follows the attempt in _mqtt_loop
InitMqttRetFallsThrough ==
    /\ pc = "init_mqtt_ret"
    /\ IF caller = "main"
       THEN /\ pc' = "loop_boot"
            /\ UNCHANGED mqtt_retry_ts
       ELSE /\ mqtt_retry_ts' = TimeAt(clock)
            /\ pc' = "mqtt"
    /\ UNCHANGED <<clock, cfgVars, NEO_DONT_BLINK, handlerVars, led, mqtt, subscribed,
                   blinkVars, start_ts, alert, caller, iter, att>>

\* init_mqtt() returns: to __main__, or to _mqtt_loop which stamps the attempt
InitMqttRet ==
    /\ pc = "init_mqtt_ret"
    /\ IF caller = "main"
       THEN /\ pc' = "loop_boot"
            /\ UNCHANGED mqtt_retry_ts
       ELSE /\ mqtt_retry_ts' = TimeAt(clock)
            /\ pc' = "init_tick"
    /\ UNCHANGED <<clock, cfgVars, NEO_DONT_BLINK, handlerVars, led, mqtt, subscribed,
                   blinkVars, start_ts, alert, caller, iter, att>>

----------------------------------------------------------------------------
(* The main loop: loop() *)

\* blink() at clock c, then time.sleep(1), n times over
RECURSIVE BootBlinks(_, _, _)
BootBlinks(b, c, n) ==
    IF n = 0 THEN b
    ELSE BootBlinks(Blink(b, NEO_DONT_BLINK, TimeAt(c)), c + TicksPerSec, n - 1)

\* loop() up to its while loop: the Ok color, three blinks a second apart,
\* the strip cleared, NEO_DONT_BLINK set, the boot script loaded, one blink
LoopBoot ==
    /\ pc = "loop_boot"
    /\ Elapse(BootDelayCount * TicksPerSec, <<>>)
    /\ NEO_DONT_BLINK' = (NEO_STRIP_PIN = "ONBOARD")
    /\ LET b3 == BootBlinks(BlinkState, clock, BootDelayCount)
           b4 == Blink(b3, NEO_DONT_BLINK', TimeAt(clock'))
       IN  /\ led' = [color |-> IF NEO_STRIP_PIN = "ONBOARD" THEN COL_OFF
                                ELSE COL_LED_ERROR[CODE_OK],
                      brightness |-> b4.brightness]
           /\ last_blink_ts' = b4.last_blink_ts
           /\ next_blink' = b4.next_blink
    /\ iter' = NoIter
    /\ pc' = "blink"
    /\ UNCHANGED <<cfgVars, handlerVars, mqtt, subscribed, mqtt_retry_ts, start_ts,
                   alert, caller>>

\* the iteration performs the step name, with the broker operations ops
StepOps(name, ops) ==
    iter' = [iter EXCEPT !.steps = Append(@, name), !.ops = @ \o ops]

Step(name) == StepOps(name, <<>>)

\* LoopBlink with a blink() that does not test NEO_DONT_BLINK
LoopBlinkAlways ==
    /\ pc = "blink"
    /\ start_ts' = clock
    /\ LET b == Blink(BlinkState, FALSE, TimeAt(clock))
       IN  /\ led' = [led EXCEPT !.brightness = b.brightness]
           /\ last_blink_ts' = b.last_blink_ts
           /\ next_blink' = b.next_blink
    /\ iter' = [steps |-> <<"blink">>, delta |-> 0, ops |-> <<>>]
    /\ pc' = "mqtt"
    /\ UNCHANGED <<clock, cfgVars, NEO_DONT_BLINK, handlerVars, mqtt, subscribed,
                   mqtt_retry_ts, alert, caller, att>>

\* start_ts = time.monotonic(); blink()
LoopBlink ==
    /\ pc = "blink"
    /\ start_ts' = clock
    /\ LET b == Blink(BlinkState, NEO_DONT_BLINK, TimeAt(clock))
       IN  /\ led' = [led EXCEPT !.brightness = b.brightness]
           /\ last_blink_ts' = b.last_blink_ts
           /\ next_blink' = b.next_blink
    /\ iter' = [steps |-> <<"blink">>, delta |-> 0, ops |-> <<>>]
    /\ pc' = "mqtt"
    /\ UNCHANGED <<clock, cfgVars, NEO_DONT_BLINK, handlerVars, mqtt, subscribed,
                   mqtt_retry_ts, alert, caller, att>>

\* _mqtt_loop(): if not _mqtt: return
MqttDisabled ==
    /\ pc = "mqtt"
    /\ mqtt = NoClient
    /\ Step("mqtt")
    /\ pc' = "init_tick"
    /\ UNCHANGED <<clock, cfgVars, NEO_DONT_BLINK, handlerVars, led, mqtt, subscribed,
                   mqtt_retry_ts, blinkVars, start_ts, alert, caller, att>>

\* RetryDue with the operands of the subtraction swapped
RetryDueSwapped(now, retry_ts) == retry_ts - now > RetryWait

\* time.time() - _mqtt_retry_ts > 5
RetryDue(now, retry_ts) == now - retry_ts > RetryWait

\* _mqtt_loop() in the retry state: call init_mqtt() once the wait is over
MqttRetry ==
    /\ pc = "mqtt"
    /\ mqtt = "retry"
    /\ IF RetryDue(TimeAt(clock), mqtt_retry_ts)
       THEN /\ StepOps("mqtt", <<"connect">>)
            /\ caller' = "loop"
            /\ pc' = "init_mqtt"
       ELSE /\ Step("mqtt")
            /\ pc' = "init_tick"
            /\ UNCHANGED caller
    /\ UNCHANGED <<clock, cfgVars, NEO_DONT_BLINK, handlerVars, led, mqtt, subscribed,
                   mqtt_retry_ts, blinkVars, start_ts, alert, att>>

ServiceTicks == {0, TicksPerSec}

\* the messages the broker delivers under the subscription <root>/#
Delivered == {<<MQTT_TOPIC_ROOT, x>> : x \in Suffixes}

\* what the script executor may do when the handler calls it: return or
\* raise; the topics that do not reach it have the one outcome
ExtOutcomes(topic) ==
    IF topic[2] \in {MQTT_TOPIC_SCRIPT_INIT, MQTT_TOPIC_SCRIPT_EVENT,
                     MQTT_TOPIC_EVENT_TRIGGER}
    THEN {"ok", "raise"} ELSE {"ok"}

\* _mqtt_loop() with a client: _mqtt.loop() dispatches the pending message to
\* _mqtt_on_message and returns, or raises; a raise calls
\* blink_error(CODE_MQTT_RETRY, 1) before the reconnect
MqttService ==
    /\ pc = "mqtt"
    /\ mqtt = "client"
    /\ \E d \in ServiceTicks, raises \in BOOLEAN :
          /\ ~subscribed => raises
          /\ \/ /\ subscribed
                /\ \E t \in Delivered, p \in ServicePayloads :
                      \E ext \in ExtOutcomes(t) : Dispatch(Handled(t, p, ext))
             \/ UNCHANGED <<neo, last_trigger>>
          /\ IF raises
             THEN /\ StepOps("mqtt", <<"service", "raise">>)
                  /\ BlinkErrorStart(CODE_MQTT_RETRY, 1, "reconnect", d, <<>>)
                  /\ subscribed' = FALSE
             ELSE /\ StepOps("mqtt", <<"service">>)
                  /\ Elapse(d, <<>>)
                  /\ pc' = "init_tick"
                  /\ UNCHANGED <<led, alert, subscribed>>
    /\ UNCHANGED <<cfgVars, NEO_DONT_BLINK, mqtt, mqtt_retry_ts, blinkVars, start_ts,
                   caller, msg, shadow>>

\* the client calls _mqtt_on_message(client, topic, message) with a message
\* delivered under the subscription
OnMessageCall ==
    /\ pc = "mqtt"
    /\ mqtt = "client"
    /\ subscribed
    /\ shadow.n < MaxMsgs
    /\ \E t \in Delivered, p \in Payloads :
          \E ext \in ExtOutcomes(t) :
             /\ Dispatch(Handled(t, p, ext))
             /\ Recorded(Handled(t, p, ext))
    /\ UNCHANGED <<pc, clock, cfgVars, NEO_DONT_BLINK, led, mqtt, subscribed,
                   mqtt_retry_ts, blinkVars, start_ts, alert, caller, iter, att>>

\* Reconnect without the inner try: the failure leaves _mqtt_loop and loop()
ReconnectUncaught ==
    /\ pc = "reconnect"
    /\ \E connected \in BOOLEAN, d \in ConnectTicks :
          /\ subscribed' = connected
          /\ IF connected
             THEN BlinkErrorStart(CODE_OK, 0, "reconnect_ok", d, <<"reconnect", TRUE>>)
             ELSE /\ Elapse(d, <<"reconnect", FALSE>>)
                  /\ pc' = "crashed"
                  /\ UNCHANGED <<led, alert>>
    /\ iter' = [iter EXCEPT !.ops = Append(@, "reconnect")]
    /\ UNCHANGED <<cfgVars, NEO_DONT_BLINK, handlerVars, mqtt, mqtt_retry_ts,
                   blinkVars, start_ts, caller>>

\* _mqtt.reconnect() after the session failed: success runs
\* _mqtt_on_connected, failure calls blink_error(CODE_MQTT_FAILED, 2)
Reconnect ==
    /\ pc = "reconnect"
    /\ \E connected \in BOOLEAN, d \in ConnectTicks :
          /\ subscribed' = connected
          /\ IF connected
             THEN BlinkErrorStart(CODE_OK, 0, "reconnect_ok", d, <<"reconnect", TRUE>>)
             ELSE BlinkErrorStart(CODE_MQTT_FAILED, 2, "init_tick", d,
                                  <<"reconnect", FALSE>>)
    /\ iter' = [iter EXCEPT !.ops = Append(@, "reconnect")]
    /\ UNCHANGED <<cfgVars, NEO_DONT_BLINK, handlerVars, mqtt, mqtt_retry_ts,
                   blinkVars, start_ts, caller>>

\* blink_error(CODE_OK, num_loop=0) after a successful reconnect
ReconnectOk ==
    /\ pc = "reconnect_ok"
    /\ BlinkErrorStart(CODE_OK, 0, "init_tick", 0, <<>>)
    /\ UNCHANGED <<cfgVars, NEO_DONT_BLINK, handlerVars, mqtt, subscribed,
                   mqtt_retry_ts, blinkVars, start_ts, caller, iter>>

\* the colors a script writes to the first pixel of the strip
ScriptColors == {COL_YELLOW}

\* OnboardNeoWrapper.copy(): the LED takes the brightness of the wrapper and
\* the color of its first pixel
OnboardCopy(val_brightness, data0) == [color |-> data0, brightness |-> val_brightness]

\* what a tick of a script executor leaves on the LED l: with the strip on
\* its own pin the LED is not touched; with NEO_STRIP_PIN = "ONBOARD" the LED
\* is the strip, and the tick leaves it alone or copies a frame to it
ScriptRender(l) ==
    IF NEO_STRIP_PIN = "ONBOARD"
    THEN {l} \cup {OnboardCopy(neo.brightness, c) : c \in ScriptColors}
    ELSE {l}

\* _init_script.loop()
InitTick ==
    /\ pc = "init_tick"
    /\ Step("boot")
    /\ led' \in ScriptRender(led)
    /\ pc' = "event_tick"
    /\ UNCHANGED <<clock, cfgVars, NEO_DONT_BLINK, handlerVars, mqtt, subscribed,
                   mqtt_retry_ts, blinkVars, start_ts, alert, caller, att>>

\* _event_script.loop()
EventTick ==
    /\ pc = "event_tick"
    /\ Step("event")
    /\ led' \in ScriptRender(led)
    /\ pc' = "pace"
    /\ UNCHANGED <<clock, cfgVars, NEO_DONT_BLINK, handlerVars, mqtt, subscribed,
                   mqtt_retry_ts, blinkVars, start_ts, alert, caller, att>>

\* Pace with the sleep in every iteration
PaceAlways ==
    /\ pc = "pace"
    /\ LET delta_ts == clock - start_ts
       IN  /\ Elapse(PaceSleep, <<>>)
           /\ iter' = [iter EXCEPT !.steps = Append(@, "sleep"), !.delta = delta_ts]
    /\ pc' = "blink"
    /\ UNCHANGED <<cfgVars, NEO_DONT_BLINK, handlerVars, led, mqtt, subscribed,
                   mqtt_retry_ts, blinkVars, start_ts, alert, caller>>

\* delta_ts = end_ts - start_ts; if delta_ts < 1: time.sleep(0.25)
Pace ==
    /\ pc = "pace"
    /\ LET delta_ts == clock - start_ts
       IN  IF delta_ts < LoopBudget * TicksPerSec
           THEN /\ Elapse(PaceSleep, <<>>)
                /\ iter' = [iter EXCEPT !.steps = Append(@, "sleep"), !.delta = delta_ts]
           ELSE /\ iter' = [iter EXCEPT !.delta = delta_ts]
                /\ UNCHANGED <<clock, att>>
    /\ pc' = "blink"
    /\ UNCHANGED <<cfgVars, NEO_DONT_BLINK, handlerVars, led, mqtt, subscribed,
                   mqtt_retry_ts, blinkVars, start_ts, alert, caller>>

----------------------------------------------------------------------------

Next ==
    \/ InitDevice
    \/ InitWifi
    \/ WifiRaise
    \/ InitMqtt
    \/ InitMqttFail
    \/ InitMqttRet
    \/ AlertCycle
    \/ AlertExit
    \/ LoopBoot
    \/ LoopBlink
    \/ MqttDisabled
    \/ MqttRetry
    \/ MqttService
    \/ Reconnect
    \/ ReconnectOk
    \/ InitTick
    \/ EventTick
    \/ Pace

\* the settings that matter to the life cycle: credentials, broker, strip
LoopEnvs == {e \in Envs : e.neo_len = <<Digits[MaxEnvLen + 1]>> /\ e.root = None}

Init == InitWith(LoopEnvs)

Spec == Init /\ [][Next]_vars

\* the connection life cycle up to a session failure: startup with the
\* credentials and a broker host, the retry state, the connection attempts
\* and the service of the session
NextLive ==
    \/ InitDevice
    \/ InitWifi
    \/ InitMqtt
    \/ InitMqttFail
    \/ InitMqttRet
    \/ AlertCycle
    \/ AlertExit
    \/ LoopBoot
    \/ LoopBlink
    \/ MqttRetry
    \/ MqttService
    \/ InitTick
    \/ EventTick
    \/ Pace

LiveEnvs == {e \in LoopEnvs : e.ssid /\ e.host}

InitLive == InitWith(LiveEnvs)

\* the single thread of control always takes its next step
SpecLive == InitLive /\ [][NextLive]_vars /\ WF_vars(NextLive)

\* the message handler alone: startup with any settings up to the first
\* service call of the main loop, then the handler called message by message
NextMsg ==
    \/ InitDevice
    \/ InitWifi
    \/ InitMqtt
    \/ AlertExit
    \/ InitMqttRet
    \/ LoopBoot
    \/ LoopBlink
    \/ OnMessageCall

\* the settings that matter to the handler: strip length and topic root
MsgEnvs == {e \in Envs : e.ssid /\ e.host /\ e.pin = None}

InitMsg == InitWith(MsgEnvs)

SpecMsg == InitMsg /\ [][NextMsg]_vars

----------------------------------------------------------------------------
(* Properties of the message handler, under SpecMsg *)

OnTopic(suffix) == msg.topic = <<MQTT_TOPIC_ROOT, suffix>>

\* the number of trigger() invocations the handler made for the message
TriggerCalls(calls) == Cardinality({i \in 1..Len(calls) : calls[i][1] = "trigger"})

\* C1: a message on <root>/event/trigger invokes trigger() exactly once when
\* its payload differs from the payload of the most recent earlier message
\* on that topic, or when it is the first one, and not at all when the
\* payload is the same.
C1_TriggerOncePerChange ==
    OnTopic(MQTT_TOPIC_EVENT_TRIGGER) =>
        TriggerCalls(msg.calls) = IF msg.payload # msg.prevTrig THEN 1 ELSE 0

\* C4: a <root>/brightness message whose payload is a float v in [0, 1] sets
\* the brightness of the pixel buffer to v; any other payload leaves the
\* brightness unchanged.
C4_BrightnessSet ==
    OnTopic(MQTT_TOPIC_BRIGHTNESS) =>
        LET v == ParseFloat(msg.payload)
        IN  /\ neo.brightness = msg.post.brightness
            /\ IF v.ok /\ v.val >= 0 /\ v.val <= 100
               THEN msg.post.brightness = v.val
               ELSE msg.post.brightness = msg.pre.brightness

\* C5: the active length stays within 1..max_length; a <root>/length message
\* with an integer payload n in [1, max_length] sets the length to n, any
\* other payload on that topic leaves the length unchanged.
C5_LengthInRange ==
    /\ neo.len >= 1
    /\ neo.len <= neo.max_len
    /\ OnTopic(MQTT_TOPIC_LENGTH) =>
          LET n == ParseInt(msg.payload)
          IN  /\ neo.len = msg.post.len
              /\ IF n.ok /\ n.val >= 1 /\ n.val <= msg.pre.max_len
                 THEN msg.post.len = n.val
                 ELSE msg.post.len = msg.pre.len

\* a length message in range was handled and changed the length
C5_Witness ==
    /\ OnTopic(MQTT_TOPIC_LENGTH)
    /\ ParseInt(msg.payload).ok
    /\ neo.len = ParseInt(msg.payload).val
    /\ msg.pre.len # neo.len
    /\ shadow.n = MaxMsgs

\* C6: the handler never lets an exception out; a failing message changes no
\* state, and the state and the calls made for the other messages are those
\* of the same sequence of messages without the failing ones.
C6_FailuresIsolated ==
    msg.topic # <<>> =>
        /\ ~msg.propagated
        /\ msg.exc # None => msg.post = msg.pre
        /\ HandlerState = msg.post
        /\ shadow.h = HandlerState
        /\ msg.exc = None => (msg.shadowExc = None /\ msg.shadowCalls = msg.calls)

\* a message was handled with a call to the script executor after an
\* earlier message failed
C6_Witness ==
    /\ shadow.failed
    /\ msg.topic # <<>>
    /\ msg.exc = None
    /\ msg.calls # <<>>
    /\ msg.post # msg.pre

----------------------------------------------------------------------------
(* Properties of the life cycle, under Spec *)

RetryWaitTicks == RetryWait * TicksPerSec

\* C2: in the retry state _mqtt_loop never starts a connection attempt less
\* than 5 seconds after the prior connection attempt, the failed attempt of
\* startup included.
C2_RetryBackoff ==
    (pc = "init_mqtt" /\ caller = "loop") => att.since >= RetryWaitTicks

\* C3: after a session failure followed by a failed reconnect no connect or
\* reconnect attempt is made until 5 seconds have elapsed.
C3_ReconnectBackoff ==
    (pc \in {"reconnect", "init_mqtt"} /\ att.kind = "reconnect" /\ ~att.ok)
        => att.since >= RetryWaitTicks

IterOrder == <<"blink", "mqtt", "boot", "event">>

InLoop == iter.steps # <<>>

\* the positions inside _mqtt_loop, once it has left its first test
InMqttLoop ==
    \/ pc \in {"reconnect", "reconnect_ok"}
    \/ pc \in {"alert", "init_mqtt", "init_mqtt_fail", "init_mqtt_ret"}

\* C7: every iteration of the main loop performs blink, _mqtt_loop, the boot
\* script tick and the event script tick once each in this order, and then
\* the pacing sleep exactly when the iteration took less than 1 second, in
\* every connection state.
C7_IterationOrder ==
    InLoop =>
        /\ pc = "mqtt" => iter.steps = SubSeq(IterOrder, 1, 1)
        /\ InMqttLoop => iter.steps = SubSeq(IterOrder, 1, 2)
        /\ pc = "init_tick" => iter.steps = SubSeq(IterOrder, 1, 2)
        /\ pc = "event_tick" => iter.steps = SubSeq(IterOrder, 1, 3)
        /\ pc = "pace" => iter.steps = IterOrder
        /\ pc = "blink" =>
              /\ iter.delta = clock - start_ts - (Len(iter.steps) - 4) * PaceSleep
              /\ IF iter.delta < LoopBudget * TicksPerSec
                 THEN iter.steps = Append(IterOrder, "sleep")
                 ELSE iter.steps = IterOrder
        /\ pc \in {"mqtt", "init_tick", "event_tick", "pace", "blink"} \/ InMqttLoop

\* an iteration ended without the pacing sleep in the retry state
C7_Witness ==
    /\ pc = "blink"
    /\ iter.steps = IterOrder
    /\ mqtt = "retry"
    /\ att.kind = "retry"

\* C8: once the main loop runs no broker failure ends it: a failed service
\* call, a failed reconnect and a failed retry attempt are absorbed in
\* _mqtt_loop, and the iteration goes on with the script ticks.
C8_LoopSurvivesBroker ==
    /\ pc = "crashed" => ~InLoop
    /\ (InLoop /\ pc = "alert") =>
          alert.ret \in {"reconnect", "reconnect_ok", "init_tick",
                         "init_mqtt_fail", "init_mqtt_ret"}

\* the event script is about to tick in the iteration whose reconnect failed
C8_Witness ==
    /\ pc = "event_tick"
    /\ att.kind = "reconnect"
    /\ ~att.ok
    /\ att.since <= clock - start_ts
    /\ ~subscribed

\* C9 as stated: a Wi-Fi failure at startup with credentials present shows
\* the LinkFailed color and is not fatal, the main loop is entered.
C9_WifiFailureNotFatal ==
    pc = "crashed" => ~env.ssid

\* C9 as amended: a Wi-Fi failure at startup with credentials present shows
\* the LinkFailed color in the alert mode and is then fatal: the error is
\* raised again after the alert mode and the main loop is never entered.
C9_WifiFailureFatal ==
    /\ led.color = COL_LED_ERROR[CODE_WIFI_FAILED] =>
          /\ env.ssid
          /\ pc \in {"alert", "wifi_raise", "crashed"}
          /\ ~InLoop
    /\ pc = "wifi_raise" => led.color = COL_LED_ERROR[CODE_WIFI_FAILED]
    /\ (pc = "crashed" /\ env.ssid) => led.color = COL_LED_ERROR[CODE_WIFI_FAILED]
    /\ (pc = "alert" /\ alert.code = CODE_WIFI_FAILED) =>
          (alert.ret = "wifi_raise" /\ led.color = COL_LED_ERROR[CODE_WIFI_FAILED])

\* the program ended on the Wi-Fi failure, the LinkFailed color on the LED
C9_Witness ==
    /\ pc = "crashed"
    /\ env.ssid
    /\ led.color = COL_PURPLE
    /\ clock > AlertEntrySleep

----------------------------------------------------------------------------
(* Properties of the alert mode and of the heartbeat, under Spec *)

\* the largest num_loop a caller of blink_error passes
MaxNumLoop == 3

\* C11 as stated: every call of blink_error ends after a bounded number of
\* flash cycles even when the button is never pressed, for every num_loop
\* its callers use, the default included: the cycles left are counted down
\* from a number that is not negative.
C11_AlertTerminates ==
    pc = "alert" =>
        /\ alert.num_loop >= 0
        /\ alert.cycles <= MaxNumLoop

\* C11 as amended: a call of blink_error with num_loop >= 0 (all callers but
\* init_wifi) ends after at most num_loop flash cycles even when the button
\* is never pressed; the call with the default num_loop of -1, made by
\* init_wifi only, counts down from -1, never reaches 0 and flashes until
\* the button is pressed.
C11_AlertBoundedByCount ==
    pc = "alert" =>
        /\ alert.num_loop = alert.n - alert.cycles
        /\ alert.n \in {-1, 0, 1, 2, MaxNumLoop}
        /\ alert.n >= 0 => (alert.num_loop >= 0 /\ alert.cycles <= alert.n)
        /\ alert.n < 0 <=> alert.code = CODE_WIFI_FAILED
        /\ alert.n < 0 => (alert.num_loop < 0 /\ alert.ret = "wifi_raise")

\* the alert mode of init_wifi has flashed more often than any count of a
\* caller allows, and goes on
C11_Witness ==
    /\ pc = "alert"
    /\ alert.n = -1
    /\ alert.cycles > MaxNumLoop
    /\ alert.num_loop # 0

\* C12 as stated: with NEO_STRIP_PIN = "ONBOARD" no call of blink() made by
\* loop(), from startup on, modifies the brightness of the LED.
C12_BlinkNeverDims ==
    [][(pc \in {"loop_boot", "blink"} /\ NEO_STRIP_PIN = "ONBOARD")
          => led'.brightness = led.brightness]_vars

\* C12 as amended: with NEO_STRIP_PIN = "ONBOARD" blink() does not modify the
\* brightness of the LED from the point where loop() has set NEO_DONT_BLINK,
\* that is in every iteration of the while loop; the three blink() calls
\* loop() makes before it sets NEO_DONT_BLINK do write the brightness.
C12_BlinkSuppressedInLoop ==
    /\ [][(pc = "blink" /\ NEO_STRIP_PIN = "ONBOARD")
             => (led' = led /\ UNCHANGED blinkVars)]_vars
    /\ [][(pc = "loop_boot" /\ NEO_STRIP_PIN = "ONBOARD")
             => (led.brightness > 0 /\ led'.brightness = 0)]_vars
    /\ []((pc = "blink" /\ NEO_STRIP_PIN = "ONBOARD") => NEO_DONT_BLINK)

\* an iteration has passed blink() more than a second after the last phase
\* change with the LED being the strip, at the brightness of the strip
C12_Witness ==
    /\ pc = "mqtt"
    /\ NEO_STRIP_PIN = "ONBOARD"
    /\ TimeAt(clock) - last_blink_ts > BlinkPeriod
    /\ led.brightness = OnboardBrightness
    /\ next_blink = 1

\* C20: blink_error(code, n) with n >= 0 sets the LED to the color mapped to
\* code at brightness 0.1 and makes min(n, k) flash cycles, k being the
\* number of cycles started before the button is first read as pressed; with
\* n = 0 it makes no cycle whatever the button; on return the brightness is
\* 0.1 and the color is the mapped color.
C20_BlinkErrorCycles ==
    /\ []((pc = "alert" /\ alert.n >= 0) =>
            /\ led = [color |-> COL_LED_ERROR[alert.code], brightness |-> LedBrightness]
            /\ alert.cycles <= alert.n
            /\ alert.num_loop = alert.n - alert.cycles)
    /\ [][(pc = "alert" /\ alert.n >= 0 /\ pc' = "alert" /\ alert' # alert) =>
             /\ alert.btn
             /\ alert.cycles < alert.n
             /\ alert'.cycles = alert.cycles + 1
             /\ clock' = clock + AlertOffSleep + AlertOnSleep]_vars
    /\ [][(pc = "alert" /\ alert.n >= 0 /\ pc' # "alert") =>
             /\ alert.btn => alert.cycles = alert.n
             /\ alert.n = 0 => alert.cycles = 0
             /\ pc' = alert.ret
             /\ clock' = clock
             /\ led' = [color |-> COL_LED_ERROR[alert.code],
                        brightness |-> LedBrightness]]_vars

\* a call with n = 2 has made one flash cycle and reads the button as pressed
C20_Witness ==
    /\ pc = "alert"
    /\ alert.n = 2
    /\ alert.cycles = 1
    /\ ~alert.btn
    /\ led = [color |-> COL_LED_ERROR[CODE_MQTT_FAILED], brightness |-> LedBrightness]

\* C19: a blink() call that is not suppressed changes the phase at most once
\* and only when more than 1 second has passed since the last change of
\* phase; it writes the brightness 0.1 or 0 according to the phase held
\* before that change, so that the changes of phase are more than a second
\* apart.
C19_HeartbeatPhase ==
    /\ [][(pc = "blink" /\ ~NEO_DONT_BLINK) =>
             /\ led'.brightness = (IF next_blink = 1 THEN LedBrightness ELSE 0)
             /\ led'.color = led.color
             /\ next_blink' \in {next_blink, 1 - next_blink}
             /\ next_blink' # next_blink =>
                   /\ TimeAt(clock) - last_blink_ts > BlinkPeriod
                   /\ last_blink_ts' = TimeAt(clock)
             /\ next_blink' = next_blink =>
                   /\ TimeAt(clock) - last_blink_ts <= BlinkPeriod
                   /\ last_blink_ts' = last_blink_ts]_vars
    /\ [][(pc = "loop_boot" /\ NEO_STRIP_PIN # "ONBOARD") =>
             /\ led'.brightness \in {0, LedBrightness}
             /\ next_blink' \in {0, 1}
             /\ last_blink_ts' \in {last_blink_ts} \cup
                  {TimeAt(clock + i * TicksPerSec) : i \in 0..BootDelayCount}]_vars
    /\ [](next_blink \in {0, 1} /\ last_blink_ts <= TimeAt(clock))

\* an iteration of the main loop has just changed the phase back to lit
\* and written the brightness of the dark phase
C19_Witness ==
    /\ pc = "mqtt"
    /\ ~NEO_DONT_BLINK
    /\ last_blink_ts = TimeAt(clock)
    /\ start_ts = clock
    /\ led.brightness = 0
    /\ next_blink = 1
    /\ clock > 2 * BootDelayCount * TicksPerSec

----------------------------------------------------------------------------
(* Properties of the connection life cycle, under Spec *)

\* the broker session is up: a client that holds the subscription
Connected == mqtt = "client" /\ subscribed

\* C13: once the main loop runs, the LED shows the color mapped to the
\* status code of the latest connectivity outcome: the Ok color only while
\* the session is connected or MQTT is disabled, the BrokerFailed color after
\* a failed connect or reconnect, the BrokerRetrying color while a reconnect
\* after a session failure is pending.
C13_LedShowsStatus ==
    InLoop =>
        /\ led.color = COL_LED_ERROR[CODE_OK] => (Connected \/ mqtt = NoClient)
        /\ mqtt = "retry" => led.color = COL_LED_ERROR[CODE_MQTT_FAILED]
        /\ (mqtt = "client" /\ ~att.ok /\ pc # "reconnect")
              => led.color = COL_LED_ERROR[CODE_MQTT_FAILED]
        /\ pc = "reconnect" => led.color = COL_LED_ERROR[CODE_MQTT_RETRY]

\* C14 as stated: the blocking alert mode (a nonzero cycle count) is entered
\* during startup only, no iteration of the main loop enters it.
C14_AlertOnlyAtStartup ==
    (pc = "alert" /\ alert.n # 0) => ~InLoop

\* C14 as amended: the alert mode with a nonzero cycle count is entered at
\* startup and also by the iterations of the main loop: with 1 cycle after a
\* session failure, with 2 cycles after a failed reconnect, with 3 cycles
\* after a failed retry connection attempt; only the alert mode without a
\* bound (the default count, used by init_wifi) is confined to startup.
C14_LoopAlertsCounted ==
    (pc = "alert" /\ InLoop) =>
        \/ /\ alert.code = CODE_MQTT_RETRY
           /\ alert.n = 1
           /\ iter.ops = <<"service", "raise">>
        \/ /\ alert.code = CODE_MQTT_FAILED
           /\ alert.n = 2
           /\ iter.ops = <<"service", "raise", "reconnect">>
        \/ /\ alert.code = CODE_MQTT_FAILED
           /\ alert.n = MaxNumLoop
           /\ iter.ops = <<"connect">>
        \/ /\ alert.code = CODE_OK
           /\ alert.n = 0
           /\ iter.ops \in {<<"connect">>, <<"service", "raise", "reconnect">>}

\* an iteration of the main loop is in the alert mode of a failed retry
\* connection attempt and has flashed three times
C14_Witness ==
    /\ pc = "alert"
    /\ InLoop
    /\ alert.n = MaxNumLoop
    /\ alert.cycles = MaxNumLoop
    /\ att.kind = "retry"

\* the longest time from the retry state to the outcome of its next
\* connection attempt: the wait, the rounding of time.time() and the first
\* sleep of blink_error
LiveWindow == (RetryWait + 1) * TicksPerSec + AlertEntrySleep

\* the retry state, early enough for the model to see the next attempt
RetryState == mqtt = "retry" /\ clock <= MaxClock - LiveWindow - BootDelayCount * TicksPerSec

\* a connection attempt of the retry state has just failed
RetryFailed == mqtt = "client" /\ ~subscribed /\ att.kind = "retry" /\ ~att.ok

ConnectedOk == Connected /\ att.ok /\ led.color = COL_LED_ERROR[CODE_OK]

C18_OneBrokerOperation ==
    /\ iter.ops \in {<<>>, <<"connect">>, <<"service">>, <<"service", "raise">>,
                      <<"service", "raise", "reconnect">>}
    /\ (pc = "init_mqtt" /\ caller = "loop") =>
          (iter.ops = <<"connect">> /\ mqtt = "retry"
           /\ RetryDue(TimeAt(clock), mqtt_retry_ts))
    /\ pc = "reconnect" => (iter.ops = <<"service", "raise">> /\ mqtt = "client")
    /\ (pc \in {"init_tick", "event_tick", "pace"} /\ mqtt = "client") =>
          iter.ops # <<>>
    /\ (pc \in {"init_tick", "event_tick", "pace"} /\ iter.ops = <<"connect">>) =>
          att.kind = "retry"
    /\ ~env.host => (mqtt = NoClient /\ iter.ops = <<>> /\ att = NoAttempt)
    /\ InLoop => (mqtt = NoClient <=> ~env.host)

\* an iteration whose service call raised and whose reconnect succeeded is
\* at its pacing step
C18_Witness ==
    /\ pc = "pace"
    /\ iter.ops = <<"service", "raise", "reconnect">>
    /\ subscribed
    /\ att.kind = "reconnect"

----------------------------------------------------------------------------
(* Properties of the dispatch of the message handler, under SpecMsg *)

HandlerTopics ==
    {MQTT_TOPIC_LENGTH, MQTT_TOPIC_BRIGHTNESS, MQTT_TOPIC_SCRIPT_INIT,
     MQTT_TOPIC_SCRIPT_EVENT, MQTT_TOPIC_EVENT_TRIGGER}

\* every call the handler made for the message went to the executor method f
CallsOnly(f) == \A i \in 1..Len(msg.calls) : msg.calls[i][1] = f

\* C16: a message is dispatched by equality of its topic with <root> plus a
\* suffix to at most one handler and changes nothing else: /length at most
\* the length, /brightness at most the brightness, /script/init calls the
\* boot script loader only, /script/event the event script loader only,
\* /event/trigger calls trigger() only and changes at most the last token;
\* a message on another topic under the root changes no state and calls no
\* handler.
C16_DispatchFrame ==
    /\ [](msg.topic # <<>> =>
            /\ Len(msg.calls) <= 1
            /\ msg.topic[1] = MQTT_TOPIC_ROOT
            /\ OnTopic(MQTT_TOPIC_LENGTH) =>
                  (msg.calls = <<>> /\ msg.post = [msg.pre EXCEPT !.len = msg.post.len])
            /\ OnTopic(MQTT_TOPIC_BRIGHTNESS) =>
                  /\ CallsOnly("brightness")
                  /\ msg.post = [msg.pre EXCEPT !.brightness = msg.post.brightness]
            /\ OnTopic(MQTT_TOPIC_SCRIPT_INIT) =>
                  /\ msg.calls \in {<< <<"init.newScript", msg.payload, r>> >> :
                                       r \in {"done", "raised"}}
                  /\ msg.post = msg.pre
            /\ OnTopic(MQTT_TOPIC_SCRIPT_EVENT) =>
                  /\ msg.calls \in {<< <<"event.newScript", msg.payload, r>> >> :
                                       r \in {"done", "raised"}}
                  /\ msg.post = msg.pre
            /\ OnTopic(MQTT_TOPIC_EVENT_TRIGGER) =>
                  /\ CallsOnly("trigger")
                  /\ msg.post = [msg.pre EXCEPT !.last_trigger = msg.post.last_trigger]
            /\ msg.topic[2] \notin HandlerTopics =>
                  (msg.calls = <<>> /\ msg.post = msg.pre /\ msg.exc = None))
    /\ [][shadow'.n = shadow.n + 1 =>
             /\ msg'.pre = HandlerState
             /\ msg'.post = HandlerState'
             /\ UNCHANGED <<pc, clock, cfgVars, NEO_DONT_BLINK, led, mqtt, subscribed,
                            mqtt_retry_ts, blinkVars, start_ts, alert, caller>>]_vars

\* a message on a topic that only starts like the length topic was handled
\* after a length message had changed the length
C16_Witness ==
    /\ msg.topic = <<MQTT_TOPIC_ROOT, "/length/x">>
    /\ ParseInt(msg.payload).ok
    /\ ParseInt(msg.payload).val >= 1
    /\ ParseInt(msg.payload).val < neo.len
    /\ neo.len < neo.max_len

\* C17: _last_trigger changes only when a message on <root>/event/trigger is
\* handled, and after every such message it is the payload of that message,
\* whether or not trigger() was called and whether or not it raised; the
\* second of two equal trigger payloads does not fire, whatever messages on
\* other topics came between them.
C17_TokenFollowsPayload ==
    msg.topic # <<>> =>
        /\ OnTopic(MQTT_TOPIC_EVENT_TRIGGER) => last_trigger = msg.payload
        /\ ~OnTopic(MQTT_TOPIC_EVENT_TRIGGER) => msg.post.last_trigger = msg.pre.last_trigger
        /\ (OnTopic(MQTT_TOPIC_EVENT_TRIGGER) /\ msg.payload = msg.prevTrig)
              => msg.calls = <<>>

====
